---- MODULE Spec2Model ----
(***************************************************************************)
(* A model of the snake game in src/src/main.rs (Bevy application).        *)
(*                                                                         *)
(* Units: positions and sizes are the f32 world units of the source, kept  *)
(* as integers; time is in milliseconds (0.1 s = 100).                     *)
(*                                                                         *)
(* The world is the sequence of live entities in storage order.  Every     *)
(* entity carries its component set, its Transform translation (x, y) and  *)
(* scale (sx, sy), and the content of its Text (if any).  Queries filter   *)
(* the sequence by component sets, as the With/Without filters do.         *)
(*                                                                         *)
(* One frame is: First/PreUpdate (time and input are sampled), the         *)
(* StateTransition schedule (OnExit / OnEnter handlers), then the Update   *)
(* schedule, whose systems carry no ordering constraints and so run in any *)
(* order, and last the application of the Commands queued during Update.   *)
(***************************************************************************)
EXTENDS Integers, Sequences, FiniteSets, TLC

VARIABLES
    state,          \* State<GameState>
    next_state,     \* NextState<GameState>: "None" or a queued state
    entities,       \* the live entities, in storage order
    next_id,        \* the next fresh Entity id
    scoreboard,     \* Res<Scoreboard>
    snake,          \* Res<Snake>
    commands,       \* Commands queued in the running schedule, not yet applied
    keyboard_input, \* Res<ButtonInput<KeyCode>>
    delta,          \* time.delta() of the running frame, in ms
    pc,             \* the position of the main loop
    ran,            \* the Update systems that ran in this pass
    entered,        \* run_once() of the initial OnEnter schedule
    frame,          \* number of frames begun
    probe           \* two boxes and what collided_with_wall_apple returns
                    \* for them (used by SpecCollide only)

vars == <<state, next_state, entities, next_id, scoreboard, snake, commands,
          keyboard_input, delta, pc, ran, entered, frame, probe>>

----------------------------------------------------------------------------
(* Bounds of the model *)

\* number of frames the main loop runs
MaxFrames == 5

\* frame times (ms) the clock may report
Deltas == {50, 200}

\* sets of keys that may be held down during a frame
KeySets == { {}, {"ArrowUp"}, {"ArrowRight"}, {"ArrowUp", "ArrowDown"},
             {"Space"} }

\* the boxes handed to collided_with_wall_apple on its own: centres with
\* coordinates 0..MaxProbeCoord, half-extents 1..MaxProbeHalf
MaxProbeCoord == 3

MaxProbeHalf == 2

\* the values the random generator is asked to choose between, per axis
SamplesX == {-350, -340, 20, 339, 340}
SamplesY == {-350, 20, 340}

----------------------------------------------------------------------------
(* Program constants *)

WALL_THICKNESS == 10
LEFT_WALL == -350
RIGHT_WALL == 350
BOTTOM_WALL == -350
TOP_WALL == 350
STEP_SIZE == 1
STEP_VELOCITY == 800
SNAKE_HEAD_HITBOX == [x |-> 20, y |-> 20]
MOVE_COOLDOWN_MS == 100

GameState == {"Playing", "GameOver"}

Vec2(x, y) == [x |-> x, y |-> y]

Vec2Half(v) == [x |-> v.x \div 2, y |-> v.y \div 2]

Abs(n) == IF n < 0 THEN -n ELSE n

Min(a, b) == IF a < b THEN a ELSE b

Max(a, b) == IF a > b THEN a ELSE b

----------------------------------------------------------------------------
(* Entities, queries and commands *)

NoText == <<>>

Entity(id, comps, x, y, sx, sy, text) ==
    [id |-> id, comps |-> comps, x |-> x, y |-> y, sx |-> sx, sy |-> sy,
     text |-> text]

\* Query<_, (With<..>, Without<..>)>: the matching entities in storage order
Query(ents, with, without) ==
    SelectSeq(ents, LAMBDA e : with \subseteq e.comps /\ e.comps \cap without = {})

SpawnCmd(e) == [op |-> "spawn", id |-> e.id, ent |-> e]

DespawnCmd(id) == [op |-> "despawn", id |-> id, ent |-> <<>>]

IndexOf(ents, id) ==
    IF \E i \in 1..Len(ents) : ents[i].id = id
    THEN CHOOSE i \in 1..Len(ents) : ents[i].id = id
    ELSE 0

\* Despawn removes the entity from its archetype table by swap-remove: the
\* last entity of the same archetype takes the freed slot.
Despawn(ents, id) ==
    LET i == IndexOf(ents, id) IN
    IF i = 0 THEN ents
    ELSE LET j == CHOOSE k \in i..Len(ents) :
                      /\ ents[k].comps = ents[i].comps
                      /\ \A m \in (k+1)..Len(ents) : ents[m].comps # ents[i].comps
             swapped == [ents EXCEPT ![i] = ents[j]]
         IN  [k \in 1..(Len(ents) - 1) |->
                 IF k < j THEN swapped[k] ELSE swapped[k + 1]]

RECURSIVE Apply(_, _)
Apply(ents, cmds) ==
    IF cmds = <<>> THEN ents
    ELSE LET c == Head(cmds) IN
         Apply(IF c.op = "spawn" THEN Append(ents, c.ent)
               ELSE Despawn(ents, c.id),
               Tail(cmds))

----------------------------------------------------------------------------
(* Timer (TimerMode::Once) *)

Timer_from_seconds_tenth == [elapsed |-> 0, finished |-> FALSE]

Timer_tick(t, dt) ==
    IF t.finished THEN t
    ELSE LET e == t.elapsed + dt IN
         IF e >= MOVE_COOLDOWN_MS
         THEN [elapsed |-> MOVE_COOLDOWN_MS, finished |-> TRUE]
         ELSE [elapsed |-> e, finished |-> FALSE]

Timer_reset(t) == [elapsed |-> 0, finished |-> FALSE]

----------------------------------------------------------------------------
(* Snake::default *)

RECURSIVE DefaultBody(_, _, _)
DefaultBody(i, x, y) ==
    IF i > 4 THEN <<>>
    ELSE LET ny == y + STEP_SIZE * i IN
         <<Vec2(x, ny)>> \o DefaultBody(i + 1, x, ny)

\* Snake::default with y advanced to the head's y before the body is built
Snake_default_bodyFromHead ==
    [head |-> Vec2(20, 20 + STEP_SIZE),
     body |-> DefaultBody(2, 20, 20 + STEP_SIZE),
     move_cooldown |-> Timer_from_seconds_tenth]

Snake_default ==
    [head |-> Vec2(20, 20 + STEP_SIZE),
     body |-> DefaultBody(2, 20, 20),
     move_cooldown |-> Timer_from_seconds_tenth]

----------------------------------------------------------------------------
(* Walls *)

WallLocations == <<"Left", "Right", "Bottom", "Top">>

WallLocation_position(loc) ==
    CASE loc = "Left"   -> Vec2(LEFT_WALL, 0)
      [] loc = "Right"  -> Vec2(RIGHT_WALL, 0)
      [] loc = "Bottom" -> Vec2(0, BOTTOM_WALL)
      [] loc = "Top"    -> Vec2(0, TOP_WALL)

WallLocation_size(loc) ==
    LET arena_height == TOP_WALL - BOTTOM_WALL
        arena_width == RIGHT_WALL - LEFT_WALL
    IN  IF loc \in {"Left", "Right"}
        THEN Vec2(WALL_THICKNESS, arena_height + WALL_THICKNESS)
        ELSE Vec2(arena_width + WALL_THICKNESS, WALL_THICKNESS)

WallBundle_new(id, loc) ==
    Entity(id, {"Sprite", "Collider"},
           WallLocation_position(loc).x, WallLocation_position(loc).y,
           WallLocation_size(loc).x, WallLocation_size(loc).y, NoText)

----------------------------------------------------------------------------
(* Collision detection *)

Aabb2d_new(center, half_size) ==
    [min |-> Vec2(center.x - half_size.x, center.y - half_size.y),
     max |-> Vec2(center.x + half_size.x, center.y + half_size.y)]

Aabb2d_center(a) ==
    Vec2((a.min.x + a.max.x) \div 2, (a.min.y + a.max.y) \div 2)

Aabb2d_closest_point(a, p) ==
    Vec2(Min(Max(p.x, a.min.x), a.max.x), Min(Max(p.y, a.min.y), a.max.y))

\* an overlap test that compares only the lower corner of a with the upper
\* corner of b
Aabb2d_intersects_oneSided(a, b) ==
    /\ a.min.x <= b.max.x
    /\ a.min.y <= b.max.y

Aabb2d_intersects(a, b) ==
    /\ a.min.x <= b.max.x /\ a.max.x >= b.min.x
    /\ a.min.y <= b.max.y /\ a.max.y >= b.min.y

\* collided_with_wall_apple choosing the horizontal sides on a tie of the
\* two offset components
collided_with_wall_apple_tieToX(snake_segment, wall_or_apple) ==
    IF ~Aabb2d_intersects(snake_segment, wall_or_apple) THEN "None"
    ELSE LET closest == Aabb2d_closest_point(wall_or_apple,
                                             Aabb2d_center(snake_segment))
             offset == Vec2(Aabb2d_center(snake_segment).x - closest.x,
                            Aabb2d_center(snake_segment).y - closest.y)
         IN  IF Abs(offset.x) >= Abs(offset.y)
             THEN (IF offset.x < 0 THEN "Left" ELSE "Right")
             ELSE IF offset.y > 0 THEN "Top"
             ELSE "Bottom"

collided_with_wall_apple(snake_segment, wall_or_apple) ==
    IF ~Aabb2d_intersects(snake_segment, wall_or_apple) THEN "None"
    ELSE LET closest == Aabb2d_closest_point(wall_or_apple,
                                             Aabb2d_center(snake_segment))
             offset == Vec2(Aabb2d_center(snake_segment).x - closest.x,
                            Aabb2d_center(snake_segment).y - closest.y)
         IN  IF Abs(offset.x) > Abs(offset.y)
             THEN (IF offset.x < 0 THEN "Left" ELSE "Right")
             ELSE IF offset.y > 0 THEN "Top"
             ELSE "Bottom"

\* the two boxes check_for_collisions builds for a head and a collider
snake_head_bounded(h) ==
    Aabb2d_new(Vec2(h.x, h.y), Vec2Half(SNAKE_HEAD_HITBOX))

wall_or_apple_bounded(c) ==
    Aabb2d_new(Vec2(c.x, c.y),
               IF "Apple" \in c.comps THEN Vec2Half(SNAKE_HEAD_HITBOX)
               ELSE Vec2Half(Vec2(c.sx, c.sy)))

Collides(h, c) ==
    collided_with_wall_apple(snake_head_bounded(h), wall_or_apple_bounded(c))
        # "None"

----------------------------------------------------------------------------
(* Spawning *)

gen_range(low, high, samples) == {v \in samples : low <= v /\ v < high}

\* apple_rng_position drawing from the whole arena, wall to wall
apple_rng_position_noInset ==
    {Vec2(x, y) :
        x \in gen_range(LEFT_WALL, RIGHT_WALL, SamplesX),
        y \in gen_range(BOTTOM_WALL, TOP_WALL, SamplesY)}

apple_rng_position ==
    {Vec2(x, y) :
        x \in gen_range(LEFT_WALL + WALL_THICKNESS, RIGHT_WALL - WALL_THICKNESS,
                        SamplesX),
        y \in gen_range(BOTTOM_WALL + WALL_THICKNESS, TOP_WALL - WALL_THICKNESS,
                        SamplesY)}

apple_spawn(id, apple_pos) ==
    SpawnCmd(Entity(id, {"Mesh", "Apple", "Collider"},
                    apple_pos.x, apple_pos.y, 1, 1, NoText))

\* snake_segment_spawn giving the body segment a Collider
snake_segment_spawn_collider(id, x, y) ==
    SpawnCmd(Entity(id, {"Mesh", "SnakeBodySegment", "Collider"}, x, y, 1, 1,
                    NoText))

snake_segment_spawn(id, x, y) ==
    SpawnCmd(Entity(id, {"Mesh", "SnakeBodySegment"}, x, y, 1, 1, NoText))

\* snake_spawn giving the head no Collider
snake_spawn_noCollider(id) ==
    LET s == Snake_default IN
    <<SpawnCmd(Entity(id, {"Mesh", "SnakeHead"},
                      s.head.x, s.head.y, 1, 1, NoText))>>
    \o [i \in 1..Len(s.body) |->
           snake_segment_spawn(id + i, s.body[i].x, s.body[i].y)]

\* spawns the head and the body of a fresh Snake::default(); the Snake
\* resource is not touched
snake_spawn(id) ==
    LET s == Snake_default IN
    <<SpawnCmd(Entity(id, {"Mesh", "SnakeHead", "Collider"},
                      s.head.x, s.head.y, 1, 1, NoText))>>
    \o [i \in 1..Len(s.body) |->
           snake_segment_spawn(id + i, s.body[i].x, s.body[i].y)]

ScoreText(n) == <<"Apples Eaten: ", n>>

setup_commands(id, apple_pos) ==
    LET walls == [i \in 1..Len(WallLocations) |->
                     SpawnCmd(WallBundle_new(id + i - 1, WallLocations[i]))]
        snk == snake_spawn(id + Len(walls))
        n == Len(walls) + Len(snk)
    IN  walls \o snk
        \o <<apple_spawn(id + n, apple_pos)>>
        \o <<SpawnCmd(Entity(id + n + 1, {"Text"}, 0, 0, 1, 1, ScoreText(0)))>>

FinalScoreText(n) == <<"Total apples eaten: ", n>>

final_score_panel(id, score) ==
    << SpawnCmd(Entity(id, {"Node"}, 0, 0, 1, 1, NoText)),
       SpawnCmd(Entity(id + 1, {"Text"}, 0, 0, 1, 1, <<"Game Over">>)),
       SpawnCmd(Entity(id + 2, {"Text"}, 0, 0, 1, 1, FinalScoreText(score))),
       SpawnCmd(Entity(id + 3, {"Text"}, 0, 0, 1, 1,
                       <<"Press Space to restart">>)) >>

\* teardown despawning the colliders only
teardown_commands_colliders(ents) ==
    LET q == Query(ents, {"Collider"}, {"Camera", "Window"}) IN
    [i \in 1..Len(q) |-> DespawnCmd(q[i].id)]

teardown_commands(ents) ==
    LET q == Query(ents, {}, {"Camera", "Window"}) IN
    [i \in 1..Len(q) |-> DespawnCmd(q[i].id)]

----------------------------------------------------------------------------
(* The main loop *)

PlayingSystems == {"check_for_collisions", "score_update", "move_snake"}

GameOverSystems == {"gameover_keyboard_input"}

UpdateSystems(s) == IF s = "Playing" THEN PlayingSystems ELSE GameOverSystems

NoProbe == <<>>

Init ==
    /\ state = "Playing"
    /\ next_state = "None"
    /\ entities = <<Entity(0, {"Window"}, 0, 0, 1, 1, NoText)>>
    /\ next_id = 1
    /\ scoreboard = [score |-> 0]
    /\ snake = Snake_default
    /\ commands = <<>>
    /\ keyboard_input = [pressed |-> {}, just_pressed |-> {}]
    /\ delta = 0
    /\ pc = "Startup"
    /\ ran = {}
    /\ entered = FALSE
    /\ frame = 0
    /\ probe = NoProbe

\* Startup schedule
camera_setup ==
    /\ pc = "Startup"
    /\ entities' = Append(entities,
                          Entity(next_id, {"Camera"}, 0, 0, 1, 1, NoText))
    /\ next_id' = next_id + 1
    /\ pc' = "First"
    /\ UNCHANGED <<probe, state, next_state, scoreboard, snake, commands,
                   keyboard_input, delta, ran, entered, frame>>

\* First / PreUpdate: the clock and the keyboard are sampled for the frame.
\* A key is just_pressed in the frame in which it goes down.
BeginFrame ==
    /\ pc = "First"
    /\ frame < MaxFrames
    /\ \E dt \in Deltas, keys \in KeySets :
          /\ delta' = dt
          /\ keyboard_input' =
                [pressed |-> keys,
                 just_pressed |-> keys \ keyboard_input.pressed]
    /\ frame' = frame + 1
    /\ ran' = {}
    /\ pc' = "StateTransition"
    /\ UNCHANGED <<probe, state, next_state, entities, next_id, scoreboard, snake,
                   commands, entered>>

\* StateTransition: on the first frame the OnEnter schedule of the initial
\* state runs (NextState is still empty then, so apply_state_transition that
\* follows it does nothing).
run_enter_schedule ==
    /\ pc = "StateTransition"
    /\ ~entered
    /\ entered' = TRUE
    /\ pc' = "OnEnter"
    /\ UNCHANGED <<probe, state, next_state, entities, next_id, scoreboard, snake,
                   commands, keyboard_input, delta, ran, frame>>

\* StateTransition: a queued NextState is taken; when it differs from the
\* current state the state is replaced and OnExit(old), OnEnter(new) run.
apply_state_transition ==
    /\ pc = "StateTransition"
    /\ entered
    /\ next_state' = "None"
    /\ IF next_state # "None" /\ next_state # state
       THEN state' = next_state /\ pc' = "OnExit"
       ELSE state' = state /\ pc' = "Update"
    /\ UNCHANGED <<probe, entities, next_id, scoreboard, snake, commands,
                   keyboard_input, delta, ran, entered, frame>>

\* OnExit(Playing) and OnExit(GameOver)
teardown ==
    /\ pc = "OnExit"
    /\ entities' = Apply(entities, teardown_commands(entities))
    /\ pc' = "OnEnter"
    /\ UNCHANGED <<probe, state, next_state, next_id, scoreboard, snake, commands,
                   keyboard_input, delta, ran, entered, frame>>

\* OnEnter(Playing)
setup ==
    /\ pc = "OnEnter"
    /\ state = "Playing"
    /\ \E apple_pos \in apple_rng_position :
          LET cmds == setup_commands(next_id, apple_pos) IN
          /\ entities' = Apply(entities, cmds)
          /\ next_id' = next_id + Len(cmds)
    /\ pc' = "Update"
    /\ UNCHANGED <<probe, state, next_state, scoreboard, snake, commands,
                   keyboard_input, delta, ran, entered, frame>>

\* display_final_score without the reset of the Scoreboard
display_final_score_noReset ==
    /\ pc = "OnEnter"
    /\ state = "GameOver"
    /\ LET cmds == final_score_panel(next_id, scoreboard.score) IN
          /\ entities' = Apply(entities, cmds)
          /\ next_id' = next_id + Len(cmds)
    /\ pc' = "Update"
    /\ UNCHANGED <<probe, state, next_state, scoreboard, snake, commands,
                   keyboard_input, delta, ran, entered, frame>>

\* display_final_score with the reset moved before the panel is built
display_final_score_resetFirst ==
    /\ pc = "OnEnter"
    /\ state = "GameOver"
    /\ LET cmds == final_score_panel(next_id, 0) IN
          /\ entities' = Apply(entities, cmds)
          /\ next_id' = next_id + Len(cmds)
    /\ scoreboard' = [scoreboard EXCEPT !.score = 0]
    /\ pc' = "Update"
    /\ UNCHANGED <<probe, state, next_state, snake, commands, keyboard_input, delta,
                   ran, entered, frame>>

\* OnEnter(GameOver)
display_final_score ==
    /\ pc = "OnEnter"
    /\ state = "GameOver"
    /\ LET cmds == final_score_panel(next_id, scoreboard.score) IN
          /\ entities' = Apply(entities, cmds)
          /\ next_id' = next_id + Len(cmds)
    /\ scoreboard' = [scoreboard EXCEPT !.score = 0]
    /\ pc' = "Update"
    /\ UNCHANGED <<probe, state, next_state, snake, commands, keyboard_input, delta,
                   ran, entered, frame>>

----------------------------------------------------------------------------
(* Update systems while Playing *)

\* the (head, collider) pairs in the order the nested loops visit them
HeadColliderPairs(ents) ==
    LET hs == Query(ents, {"SnakeHead", "Collider"}, {})
        cs == Query(ents, {"Collider"}, {"SnakeHead"})
        n == Len(cs)
    IN  [k \in 1..(Len(hs) * n) |->
            <<hs[((k - 1) \div n) + 1], cs[((k - 1) % n) + 1]>>]

\* EatCommands calling snake_segment_spawn twice
EatCommands_twoSegments(h, c, apple_pos, id) ==
    << DespawnCmd(c.id),
       apple_spawn(id, apple_pos),
       snake_segment_spawn(id + 1, h.x, h.y),
       snake_segment_spawn(id + 1, h.x, h.y) >>

\* EatCommands without the call of snake_segment_spawn
EatCommands_noSegment(h, c, apple_pos, id) ==
    << DespawnCmd(c.id),
       apple_spawn(id, apple_pos) >>

\* EatCommands without the despawn of the eaten apple
EatCommands_noDespawn(h, c, apple_pos, id) ==
    << apple_spawn(id, apple_pos),
       snake_segment_spawn(id + 1, h.x, h.y) >>

\* the commands queued when head h overlaps apple c
EatCommands(h, c, apple_pos, id) ==
    << DespawnCmd(c.id),
       apple_spawn(id, apple_pos),
       snake_segment_spawn(id + 1, h.x, h.y) >>

\* the body of the nested loops; rng holds the positions apple_rng_position
\* will return, st the resources the loop writes
RECURSIVE CollisionLoop(_, _, _)
CollisionLoop(pairs, rng, st) ==
    IF pairs = <<>> THEN st
    ELSE LET h == Head(pairs)[1]
             c == Head(pairs)[2]
         IN  IF ~Collides(h, c) THEN CollisionLoop(Tail(pairs), rng, st)
             ELSE IF "Apple" \in c.comps
             THEN LET cmds == EatCommands(h, c, Head(rng), st.next_id) IN
                  CollisionLoop(Tail(pairs), Tail(rng),
                      [st EXCEPT !.score = @ + 1,
                                 !.commands = @ \o cmds,
                                 !.next_id = @ + 2])
             ELSE CollisionLoop(Tail(pairs), rng,
                      [st EXCEPT !.next_state = "GameOver"])

AppleHits(pairs) ==
    SelectSeq(pairs, LAMBDA p : "Apple" \in p[2].comps /\ Collides(p[1], p[2]))

WallHits(pairs) ==
    SelectSeq(pairs, LAMBDA p : "Apple" \notin p[2].comps /\ Collides(p[1], p[2]))

check_for_collisions ==
    /\ pc = "Update"
    /\ state = "Playing"
    /\ "check_for_collisions" \notin ran
    /\ LET pairs == HeadColliderPairs(entities) IN
       \E rng \in [1..Len(AppleHits(pairs)) -> apple_rng_position] :
          LET st == CollisionLoop(pairs, rng,
                        [score |-> scoreboard.score, commands |-> commands,
                         next_state |-> next_state, next_id |-> next_id])
          IN  /\ scoreboard' = [scoreboard EXCEPT !.score = st.score]
              /\ commands' = st.commands
              /\ next_state' = st.next_state
              /\ next_id' = st.next_id
    /\ ran' = ran \cup {"check_for_collisions"}
    /\ UNCHANGED <<probe, state, entities, snake, keyboard_input, delta, pc, entered,
                   frame>>

score_update ==
    /\ pc = "Update"
    /\ state = "Playing"
    /\ "score_update" \notin ran
    /\ entities' = [i \in 1..Len(entities) |->
                       IF "Text" \in entities[i].comps
                       THEN [entities[i] EXCEPT
                                !.text = ScoreText(scoreboard.score)]
                       ELSE entities[i]]
    /\ ran' = ran \cup {"score_update"}
    /\ UNCHANGED <<probe, state, next_state, next_id, scoreboard, snake, commands,
                   keyboard_input, delta, pc, entered, frame>>

ArrowKeys == {"ArrowDown", "ArrowUp", "ArrowLeft", "ArrowRight"}

movement_amount(dt) == (STEP_SIZE * STEP_VELOCITY * dt) \div 1000

\* the four key tests applied to the head's translation
MoveHead(h, pressed, amount) ==
    LET y1 == IF "ArrowDown" \in pressed THEN h.y - amount ELSE h.y
        y2 == IF "ArrowUp" \in pressed THEN y1 + amount ELSE y1
        x1 == IF "ArrowLeft" \in pressed THEN h.x - amount ELSE h.x
        x2 == IF "ArrowRight" \in pressed THEN x1 + amount ELSE x1
    IN  [h EXCEPT !.x = x2, !.y = y2]

QueryIdx(ents, with, without) ==
    SelectSeq([i \in 1..Len(ents) |-> i],
              LAMBDA i : /\ with \subseteq ents[i].comps
                         /\ ents[i].comps \cap without = {})

\* the loop over the body segments, carrying current_position
RECURSIVE ShiftBody(_, _, _)
ShiftBody(ents, idxs, current_position) ==
    IF idxs = <<>> THEN ents
    ELSE LET i == Head(idxs)
             prev_position == Vec2(ents[i].x, ents[i].y)
         IN  ShiftBody([ents EXCEPT ![i].x = current_position.x,
                                    ![i].y = current_position.y],
                       Tail(idxs), prev_position)

\* move_snake_tick reading current_position after the head has moved
move_snake_tick_lateCapture(ents, hi, pressed, amount) ==
    LET moved == pressed \cap ArrowKeys # {}
        ents1 == [ents EXCEPT ![hi] = MoveHead(ents[hi], pressed, amount)]
        current_position == Vec2(ents1[hi].x, ents1[hi].y)
    IN  IF moved
        THEN ShiftBody(ents1,
                       QueryIdx(ents1, {"SnakeBodySegment"}, {"SnakeHead"}),
                       current_position)
        ELSE ents1

\* move_snake_tick shifting the body whether or not a key is pressed
move_snake_tick_alwaysMoved(ents, hi, pressed, amount) ==
    LET current_position == Vec2(ents[hi].x, ents[hi].y)
        ents1 == [ents EXCEPT ![hi] = MoveHead(ents[hi], pressed, amount)]
    IN  ShiftBody(ents1,
                  QueryIdx(ents1, {"SnakeBodySegment"}, {"SnakeHead"}),
                  current_position)

\* the entities after a movement tick of the single head at index hi
move_snake_tick(ents, hi, pressed, amount) ==
    LET current_position == Vec2(ents[hi].x, ents[hi].y)
        moved == pressed \cap ArrowKeys # {}
        ents1 == [ents EXCEPT ![hi] = MoveHead(ents[hi], pressed, amount)]
    IN  IF moved
        THEN ShiftBody(ents1,
                       QueryIdx(ents1, {"SnakeBodySegment"}, {"SnakeHead"}),
                       current_position)
        ELSE ents1

move_snake ==
    /\ pc = "Update"
    /\ state = "Playing"
    /\ "move_snake" \notin ran
    /\ LET t == Timer_tick(snake.move_cooldown, delta)
           heads == QueryIdx(entities, {"Collider", "SnakeHead"}, {})
       IN  IF ~t.finished
           THEN /\ snake' = [snake EXCEPT !.move_cooldown = t]
                /\ ran' = ran \cup {"move_snake"}
                /\ UNCHANGED <<entities, pc>>
           ELSE IF Len(heads) # 1
           THEN \* single_mut() panics
                /\ snake' = [snake EXCEPT !.move_cooldown = t]
                /\ pc' = "Panic"
                /\ UNCHANGED <<entities, ran>>
           ELSE /\ snake' = [snake EXCEPT !.move_cooldown = Timer_reset(t)]
                /\ entities' = move_snake_tick(entities, heads[1],
                                   keyboard_input.pressed,
                                   movement_amount(delta))
                /\ ran' = ran \cup {"move_snake"}
                /\ pc' = pc
    /\ UNCHANGED <<probe, state, next_state, next_id, scoreboard, commands,
                   keyboard_input, delta, entered, frame>>

----------------------------------------------------------------------------
(* Update systems while GameOver *)

gameover_keyboard_input ==
    /\ pc = "Update"
    /\ state = "GameOver"
    /\ "gameover_keyboard_input" \notin ran
    /\ next_state' = IF "Space" \in keyboard_input.just_pressed
                     THEN "Playing" ELSE next_state
    /\ ran' = ran \cup {"gameover_keyboard_input"}
    /\ UNCHANGED <<probe, state, entities, next_id, scoreboard, snake, commands,
                   keyboard_input, delta, pc, entered, frame>>

\* the end of the Update schedule: the queued Commands are applied
apply_deferred ==
    /\ pc = "Update"
    /\ ran = UpdateSystems(state)
    /\ entities' = Apply(entities, commands)
    /\ commands' = <<>>
    /\ pc' = "First"
    /\ UNCHANGED <<probe, state, next_state, next_id, scoreboard, snake,
                   keyboard_input, delta, ran, entered, frame>>

----------------------------------------------------------------------------

Next ==
    \/ camera_setup
    \/ BeginFrame
    \/ run_enter_schedule
    \/ apply_state_transition
    \/ teardown
    \/ setup
    \/ display_final_score
    \/ check_for_collisions
    \/ score_update
    \/ move_snake
    \/ gameover_keyboard_input
    \/ apply_deferred

Spec == Init /\ [][Next]_vars

----------------------------------------------------------------------------
(* collided_with_wall_apple on its own: the two boxes are drawn from the    *)
(* bounded set, then the function is called on them in both orders.         *)

ProbeBoxes ==
    [center : [x : 0..MaxProbeCoord, y : 0..MaxProbeCoord],
     half : [x : 1..MaxProbeHalf, y : 1..MaxProbeHalf]]

InitCollide ==
    /\ state = "Playing"
    /\ next_state = "None"
    /\ entities = <<>>
    /\ next_id = 0
    /\ scoreboard = [score |-> 0]
    /\ snake = Snake_default
    /\ commands = <<>>
    /\ keyboard_input = [pressed |-> {}, just_pressed |-> {}]
    /\ delta = 0
    /\ pc = "Collide"
    /\ ran = {}
    /\ entered = FALSE
    /\ frame = 0
    /\ \E a \in ProbeBoxes, b \in ProbeBoxes :
          probe = [snake_segment |-> a, wall_or_apple |-> b,
                   collision |-> "NotCalled", swapped |-> "NotCalled"]

\* collided_with_wall_apple(snake_segment, wall_or_apple)
Collide ==
    /\ probe.collision = "NotCalled"
    /\ probe' = [probe EXCEPT !.collision =
          collided_with_wall_apple(
              Aabb2d_new(probe.snake_segment.center, probe.snake_segment.half),
              Aabb2d_new(probe.wall_or_apple.center, probe.wall_or_apple.half))]
    /\ UNCHANGED <<state, next_state, entities, next_id, scoreboard, snake,
                   commands, keyboard_input, delta, pc, ran, entered, frame>>

\* collided_with_wall_apple(wall_or_apple, snake_segment)
CollideSwapped ==
    /\ probe.swapped = "NotCalled"
    /\ probe' = [probe EXCEPT !.swapped =
          collided_with_wall_apple(
              Aabb2d_new(probe.wall_or_apple.center, probe.wall_or_apple.half),
              Aabb2d_new(probe.snake_segment.center, probe.snake_segment.half))]
    /\ UNCHANGED <<state, next_state, entities, next_id, scoreboard, snake,
                   commands, keyboard_input, delta, pc, ran, entered, frame>>

NextCollide ==
    \/ Collide
    \/ CollideSwapped

SpecCollide == InitCollide /\ [][NextCollide]_vars

----------------------------------------------------------------------------
(* Observations used by the properties *)

Heads == Query(entities, {"SnakeHead"}, {})

Body == Query(entities, {"SnakeBodySegment"}, {})

Apples == Query(entities, {"Apple"}, {})

Walls == Query(entities, {"Sprite", "Collider"}, {"Apple", "SnakeHead"})

Positions(ents) == [i \in 1..Len(ents) |-> Vec2(ents[i].x, ents[i].y)]

Ids(ents) == {ents[i].id : i \in 1..Len(ents)}

\* the scores shown on the game-over panel
FinalScores ==
    {entities[i].text[2] : i \in {k \in 1..Len(entities) :
        /\ Len(entities[k].text) = 2
        /\ entities[k].text[1] = "Total apples eaten: "}}

\* the step in which check_for_collisions runs
CheckStep ==
    /\ pc = "Update" /\ state = "Playing"
    /\ "check_for_collisions" \notin ran
    /\ "check_for_collisions" \in ran'

\* the step in which move_snake runs to its end
MoveStep ==
    /\ pc = "Update" /\ state = "Playing"
    /\ "move_snake" \notin ran
    /\ "move_snake" \in ran'

\* the cooldown elapses in the move_snake call of this pass
TickElapses == Timer_tick(snake.move_cooldown, delta).finished

\* the step that ends an update pass
EndOfPassStep == pc = "Update" /\ pc' = "First"

HeadOverlapsWall ==
    \E i \in 1..Len(Heads), j \in 1..Len(Walls) :
        Aabb2d_intersects(
            Aabb2d_new(Vec2(Heads[i].x, Heads[i].y), Vec2(10, 10)),
            Aabb2d_new(Vec2(Walls[j].x, Walls[j].y),
                       Vec2(Walls[j].sx \div 2, Walls[j].sy \div 2)))

HeadOverlapsApple ==
    \E i \in 1..Len(Heads), j \in 1..Len(Apples) :
        Aabb2d_intersects(
            Aabb2d_new(Vec2(Heads[i].x, Heads[i].y), Vec2(10, 10)),
            Aabb2d_new(Vec2(Apples[j].x, Apples[j].y), Vec2(10, 10)))

----------------------------------------------------------------------------
(* Properties *)

\* C1: a wall collision ends the game with the right score.  When
\* check_for_collisions finds the head's hitbox overlapping a wall, GameOver
\* is requested (an apple eaten in the same call is counted); the request
\* and the Scoreboard stay as they are until the state transition, which
\* makes the state GameOver; display_final_score shows the Scoreboard value
\* held then and resets the Scoreboard to 0.
C1_WallCollisionEndsGame ==
    [][ /\ (CheckStep /\ HeadOverlapsWall) =>
              /\ next_state' = "GameOver"
              /\ scoreboard'.score = scoreboard.score
                    + (IF HeadOverlapsApple THEN 1 ELSE 0)
        /\ (next_state = "GameOver" /\ pc # "StateTransition") =>
              /\ next_state' = "GameOver"
              /\ scoreboard' = scoreboard
        /\ (next_state = "GameOver" /\ pc = "StateTransition") =>
              /\ state' = "GameOver"
              /\ scoreboard' = scoreboard
        /\ (state = "GameOver" /\ pc = "OnExit") => scoreboard' = scoreboard
        /\ (state = "GameOver" /\ pc = "OnEnter") =>
              /\ FinalScores' = {scoreboard.score}
              /\ scoreboard'.score = 0
      ]_vars

\* C1 witness: the game-over panel shows a positive final score and the
\* Scoreboard has been reset
C1_Witness ==
    /\ state = "GameOver" /\ pc = "Update"
    /\ \E n \in FinalScores : n >= 1
    /\ scoreboard.score = 0

\* C2: a restart equals a fresh game.  Every entry to Playing, the first
\* one and every restart, ends with the head, the body and the Scoreboard of
\* Snake::default(), one food item, four walls and one scoreboard text, and
\* with no entity but the window and the camera older than the entry.
C2_RestartEqualsFreshGame ==
    [][ (pc = "OnEnter" /\ state = "Playing") =>
           /\ state' = "Playing"
           /\ Positions(Heads') = <<Vec2(20, 21)>>
           /\ Positions(Body') = Snake_default.body
           /\ scoreboard'.score = 0
           /\ Len(Apples') = 1
           /\ Len(Walls') = 4
           /\ Len(entities') = 2 + 4 + 1 + Len(Snake_default.body) + 1 + 1
           /\ \A i \in 1..Len(entities') :
                 \/ entities'[i].comps \cap {"Camera", "Window"} # {}
                 \/ entities'[i].id >= next_id
      ]_vars

\* C2 witness: Playing was entered a second time (the head is not the head
\* of the first entry)
C2_Witness ==
    /\ state = "Playing" /\ pc = "Update" /\ ran = {}
    /\ \E i \in 1..Len(Heads) : Heads[i].id > 2 + Len(WallLocations)

\* C3: eating increases the body by one segment and the Scoreboard by one,
\* destroys the eaten food and leaves exactly one food item.  The call of
\* check_for_collisions that finds the head over the food adds 1 to the
\* Scoreboard and queues the despawn of that food; when the commands of the
\* pass are applied the eaten food is gone, the body is one segment longer
\* and exactly one food item exists.
C3_EatGrowsByOne ==
    [][ /\ (CheckStep /\ HeadOverlapsApple) =>
              /\ scoreboard'.score = scoreboard.score + 1
              /\ Len(commands') = Len(commands) + 3
              /\ \E j \in 1..Len(Apples) :
                    commands'[Len(commands) + 1] = DespawnCmd(Apples[j].id)
        /\ (CheckStep /\ ~HeadOverlapsApple) =>
              /\ scoreboard' = scoreboard
              /\ commands' = commands
        /\ (EndOfPassStep /\ commands # <<>>) =>
              /\ Len(Body') = Len(Body) + 1
              /\ commands[1].id \in Ids(Apples)
              /\ commands[1].id \notin Ids(entities')
              /\ Len(Apples') = 1
        /\ (EndOfPassStep /\ commands = <<>>) => entities' = entities
      ]_vars

\* C3 witness: a pass in which food was eaten has ended
C3_Witness ==
    /\ state = "Playing" /\ pc = "First"
    /\ scoreboard.score = 1
    /\ Len(Body) = Len(Snake_default.body) + 1
    /\ Len(Apples) = 1

\* C4: on eating, the new body segment is created at the position of the
\* snake's last body segment
C4_NewSegmentAtTail ==
    [][ (CheckStep /\ HeadOverlapsApple /\ Len(Body) >= 1) =>
           \A k \in (Len(commands) + 1)..Len(commands') :
               (commands'[k].op = "spawn"
                  /\ "SnakeBodySegment" \in commands'[k].ent.comps) =>
               Vec2(commands'[k].ent.x, commands'[k].ent.y)
                  = Positions(Body)[Len(Body)]
      ]_vars

\* C5: body propagation is an exact shift by one.  In a movement tick with a
\* direction pressed, segment 0 takes the head's position of before the tick
\* and segment i the former position of segment i-1; the former tail
\* position is dropped.
C5_BodyShiftsByOne ==
    [][ (MoveStep /\ TickElapses /\ Len(Body) >= 1
           /\ keyboard_input.pressed \cap ArrowKeys # {}) =>
           /\ Len(Body') = Len(Body)
           /\ Positions(Body') =
                 <<Positions(Heads)[1]>>
                 \o SubSeq(Positions(Body), 1, Len(Body) - 1)
      ]_vars

\* C5 witness: a grown snake has moved away from its starting place
C5_Witness ==
    /\ "move_snake" \in ran
    /\ Len(Body) > Len(Snake_default.body)
    /\ Positions(Body)[1] # Snake_default.body[1]
    /\ Positions(Body)[1] # Positions(Heads)[1]

\* C6: a wasted tick changes nothing but the cooldown.  In a movement tick
\* with no direction pressed the head and every body segment keep their
\* positions, and the cooldown is reset.
C6_WastedTick ==
    [][ (MoveStep /\ TickElapses
           /\ keyboard_input.pressed \cap ArrowKeys = {}) =>
           /\ Positions(Heads') = Positions(Heads)
           /\ Positions(Body') = Positions(Body)
           /\ snake'.move_cooldown.elapsed = 0
           /\ ~snake'.move_cooldown.finished
      ]_vars

\* C6 witness: move_snake has run a tick with no direction pressed, after
\* the cooldown had run for part of its time
C6_Witness ==
    /\ state = "Playing" /\ pc = "Update"
    /\ "move_snake" \in ran
    /\ keyboard_input.pressed \cap ArrowKeys = {}
    /\ delta = 200
    /\ snake.move_cooldown.elapsed = 0
    /\ Positions(Heads) # <<Snake_default.head>>

\* C7: the state machine has the two states Playing and GameOver, starts in
\* Playing, and has two transitions.  The state changes only by taking the
\* queued NextState; GameOver is queued only by a call of
\* check_for_collisions, while Playing, that finds the head's hitbox over a
\* wall; Playing is queued only by gameover_keyboard_input, while GameOver,
\* in a frame in which Space went down.
C7_StateMachine ==
    /\ state = "Playing"
    /\ [](state \in GameState)
    /\ [][ /\ (state' # state) =>
                 /\ next_state = state'
                 /\ pc = "StateTransition"
                 /\ \/ state = "Playing" /\ state' = "GameOver"
                    \/ state = "GameOver" /\ state' = "Playing"
           /\ (next_state' # next_state /\ next_state' = "GameOver") =>
                 /\ CheckStep
                 /\ HeadOverlapsWall
           /\ (next_state' # next_state /\ next_state' = "Playing") =>
                 /\ state = "GameOver"
                 /\ pc = "Update"
                 /\ "Space" \in keyboard_input.just_pressed
           /\ (next_state' # next_state /\ next_state' = "None") =>
                 pc = "StateTransition"
         ]_vars

\* C7 witness: a direction key was held during a GameOver pass, whose system
\* has run, and no transition is queued
C7_Witness ==
    /\ state = "GameOver" /\ pc = "Update"
    /\ "gameover_keyboard_input" \in ran
    /\ keyboard_input.pressed \cap ArrowKeys # {}
    /\ next_state = "None"

\* C8: between update passes, while Playing, at most one food item exists
C8_AtMostOneFood ==
    (state = "Playing" /\ pc \in {"First", "StateTransition"}) =>
        Len(Apples) <= 1

\* C8 witness: after a restart and an eat, between passes, one food item
C8_Witness ==
    /\ state = "Playing" /\ pc = "First"
    /\ \E i \in 1..Len(Heads) : Heads[i].id > 2 + Len(WallLocations)
    /\ scoreboard.score >= 1
    /\ Len(Apples) = 1

\* C9: the collision box of a food item (20 x 20) never intersects the
\* bounding box of a wall
C9_FoodNeverOverlapsWall ==
    \A i \in 1..Len(Apples), j \in 1..Len(Walls) :
        ~Aabb2d_intersects(
            Aabb2d_new(Vec2(Apples[i].x, Apples[i].y), Vec2(10, 10)),
            Aabb2d_new(Vec2(Walls[j].x, Walls[j].y),
                       Vec2(Walls[j].sx \div 2, Walls[j].sy \div 2)))

\* the food items that exist or are queued to be spawned
FoodProduced ==
    {entities[i] : i \in {k \in 1..Len(entities) :
                             "Apple" \in entities[k].comps}}
    \cup {commands[i].ent : i \in {k \in 1..Len(commands) :
                             /\ commands[k].op = "spawn"
                             /\ "Apple" \in commands[k].ent.comps}}

\* C10: every food position produced, at the entry to Playing and after
\* every eat, has -340 <= x <= 340 and -340 <= y <= 340
C10_FoodWithinBounds ==
    \A a \in FoodProduced :
        /\ -340 <= a.x /\ a.x <= 340
        /\ -340 <= a.y /\ a.y <= 340

\* C10 witness: food spawned after an eat lies on the lower bound of x
C10_Witness ==
    /\ scoreboard.score >= 1
    /\ \E i \in 1..Len(Apples) : Apples[i].x = -340

\* C11: in every update pass while Playing, check_for_collisions runs after
\* move_snake, on the head position that pass's movement produced
C11_MoveBeforeCollision ==
    [][ CheckStep => "move_snake" \in ran ]_vars

\* the heads move_snake's query finds
MoveSnakeHeads == QueryIdx(entities, {"Collider", "SnakeHead"}, {})

\* C12: in every update pass while Playing exactly one snake head exists,
\* and it is the one entity move_snake's head query finds, so single_mut()
\* never panics
C12_ExactlyOneHead ==
    /\ pc # "Panic"
    /\ (state = "Playing" /\ pc = "Update") =>
          /\ Len(Heads) = 1
          /\ Len(MoveSnakeHeads) = 1

\* C12 witness: after a restart move_snake has run a movement tick
C12_Witness ==
    /\ state = "Playing" /\ pc = "Update"
    /\ "move_snake" \in ran
    /\ snake.move_cooldown.elapsed = 0
    /\ \E i \in 1..Len(Heads) : Heads[i].id > 2 + Len(WallLocations)

\* C13: the Scoreboard is a non-negative counter.  It changes only by +1, in
\* a call of check_for_collisions that finds the head over food, and by the
\* reset to 0 of display_final_score on the way into GameOver; it is 0 in
\* every GameOver pass and at every entry to Playing.
C13_Scoreboard ==
    /\ [](scoreboard.score >= 0)
    /\ []((state = "GameOver" /\ pc \notin {"OnExit", "OnEnter"}) =>
             scoreboard.score = 0)
    /\ []((state = "Playing" /\ pc = "OnEnter") => scoreboard.score = 0)
    /\ [][ (scoreboard'.score # scoreboard.score) =>
              \/ /\ CheckStep
                 /\ HeadOverlapsApple
                 /\ scoreboard'.score = scoreboard.score + 1
              \/ /\ state = "GameOver"
                 /\ pc = "OnEnter"
                 /\ scoreboard'.score = 0
         ]_vars

\* C13 witness: Playing has been entered again, with the Scoreboard at 0,
\* after a game in which food was eaten (every entry spawns 10 entities,
\* the panel 4, every eat 2)
C13_Witness ==
    /\ state = "Playing" /\ pc = "Update" /\ ran = {}
    /\ scoreboard.score = 0
    /\ next_id >= 2 + 10 + 4 + 10 + 2

C15_FixedDisplacement ==
    [][ (MoveStep /\ TickElapses /\ keyboard_input.pressed = {"ArrowUp"}) =>
           \A dt \in Deltas :
               Positions(Heads')[1].y - Positions(Heads)[1].y
                  = movement_amount(dt)
      ]_vars

\* the cooldown elapses in the move_snake call of the running pass (after
\* the call the timer reads 0 exactly when it elapsed and was reset)
PassTickElapses ==
    IF "move_snake" \in ran THEN snake.move_cooldown.elapsed = 0
    ELSE TickElapses

\* C18: in an update pass in which the cooldown does not elapse nothing
\* changes: no position, no body length, no Scoreboard value, no food item,
\* no pending state transition
C18_CooldownGatesEffects ==
    [][ (pc = "Update" /\ state = "Playing" /\ ~PassTickElapses) =>
           /\ Positions(Heads') = Positions(Heads)
           /\ Positions(Body') = Positions(Body)
           /\ scoreboard' = scoreboard
           /\ Apples' = Apples
           /\ next_state' = next_state
      ]_vars

\* C19: between update passes, while Playing, the number of body segments
\* is the initial body length 3 plus the Scoreboard value
C19_BodyLengthIsThreePlusScore ==
    (state = "Playing" /\ entered /\ pc = "First") =>
        Len(Body) = 3 + scoreboard.score

\* C19 witness: two eats have been applied
C19_Witness ==
    /\ state = "Playing" /\ pc = "First"
    /\ scoreboard.score = 2
    /\ Len(Body) = 5

\* C20: in a movement tick that leaves the head where it was, every body
\* segment keeps its position
C20_BodyMovesOnlyWithHead ==
    [][ (MoveStep /\ TickElapses /\ Positions(Heads') = Positions(Heads)) =>
           Positions(Body') = Positions(Body)
      ]_vars

----------------------------------------------------------------------------
(* The collision detector as a function of two boxes (SpecCollide) *)

\* the boxes overlap or touch on the horizontal and on the vertical axis
ProbeOverlap ==
    LET a == probe.snake_segment
        b == probe.wall_or_apple
    IN  /\ Abs(a.center.x - b.center.x) <= a.half.x + b.half.x
        /\ Abs(a.center.y - b.center.y) <= a.half.y + b.half.y

\* c held between lo and hi
Clamp(c, lo, hi) == IF c < lo THEN lo ELSE IF c > hi THEN hi ELSE c

\* the point of the stationary box closest to the moving box's centre
ProbeClosest ==
    LET a == probe.snake_segment
        b == probe.wall_or_apple
    IN  [x |-> Clamp(a.center.x, b.center.x - b.half.x, b.center.x + b.half.x),
         y |-> Clamp(a.center.y, b.center.y - b.half.y, b.center.y + b.half.y)]

\* the side read off an offset vector
SideOf(ox, oy) ==
    IF Abs(ox) > Abs(oy) /\ ox < 0 THEN "Left"
    ELSE IF Abs(ox) > Abs(oy) THEN "Right"
    ELSE IF oy > 0 THEN "Top"
    ELSE "Bottom"

\* C16 (as stated): the detector returns None exactly when the boxes do not
\* overlap on both axes, and otherwise the side read off the offset vector
\* taken from the moving box's centre to the closest point on the stationary
\* box (closest point minus centre).
C16_SideFromOffset ==
    probe.collision # "NotCalled" =>
        probe.collision =
            IF ~ProbeOverlap THEN "None"
            ELSE SideOf(ProbeClosest.x - probe.snake_segment.center.x,
                        ProbeClosest.y - probe.snake_segment.center.y)

\* C16 (amended): the detector returns None exactly when the boxes do not
\* overlap on both axes, and otherwise the side read off the offset vector
\* taken from the closest point on the stationary box to the moving box's
\* centre (centre minus closest point); the zero offset gives Bottom.
C16_SideFromOffsetAmended ==
    probe.collision # "NotCalled" =>
        probe.collision =
            IF ~ProbeOverlap THEN "None"
            ELSE SideOf(probe.snake_segment.center.x - ProbeClosest.x,
                        probe.snake_segment.center.y - ProbeClosest.y)

\* the moving centre lies left of the stationary box, level with it, and the
\* detector has answered Left
C16_Witness ==
    /\ probe.collision = "Left"
    /\ probe.snake_segment.center.x
          < probe.wall_or_apple.center.x - probe.wall_or_apple.half.x
    /\ probe.snake_segment.center.y = probe.wall_or_apple.center.y

\* C17: overlap detection is symmetric: collided_with_wall_apple(A, B) is
\* Some exactly when collided_with_wall_apple(B, A) is Some.
C17_OverlapSymmetric ==
    (probe.collision # "NotCalled" /\ probe.swapped # "NotCalled") =>
        (probe.collision = "None" <=> probe.swapped = "None")

\* both orders have been tried, both report a collision, on different sides
C17_Witness ==
    /\ probe.collision \notin {"NotCalled", "None"}
    /\ probe.swapped \notin {"NotCalled", "None"}
    /\ probe.collision # probe.swapped

====
